---- MODULE Spec2Model ----
(***************************************************************************)
(* dash-doc-updater: version discovery from repository tags, the build     *)
(* loop with its ledger of processed versions (doc.py), the version that   *)
(* Terraform reads from the content of its repository (terraform.py), and  *)
(* the merge of the built archives into a Dash doc set (updater.py).       *)
(*                                                                         *)
(* A raw version string is modelled by its parts: an optional leading "v", *)
(* the dotted release numbers, and a suffix ("", "-rc1", ".post1", or a    *)
(* text that is no version at all).  Parsing, ordering, stability and the  *)
(* string length are computed from those parts.                            *)
(***************************************************************************)
EXTENDS Integers, Sequences, FiniteSets, TLC

VARIABLES
    tags,                \* upstream: the tag names of the remote repository
    head,                \* upstream: h.version of content/config.rb at origin/HEAD
    stable_version,      \* TagUpdater.stable_version
    ledger_file,         \* processed_versions_file on disk
    processed_versions,  \* ProcessedVersions.processed_versions (memory)
    versions,            \* Documentation.versions (memory)
    updated,             \* the list update() builds and returns
    pc,                  \* where the process is
    i,                   \* index of the loop the process is in
    docset_json,         \* docset.json on disk
    version_dirs,        \* docsets/<name>/versions/<version>/ archives
    root_archive,        \* the archive at the doc-set root
    runs,                \* update() calls made so far
    hist,                \* history: what earlier calls and runs did
    call,                \* history: the last two calls made on Dash
    main,                \* __main__: the configured projects and how far it got
    repository_path,     \* RepoUpdater.repository_path on disk: the clone
    repo                 \* RepoUpdater.repo (memory)

vars == <<tags, head, stable_version, ledger_file, processed_versions, versions,
          updated, pc, i, docset_json, version_dirs, root_archive,
          runs, hist, call, main, repository_path, repo>>

\* Python's None, for a path and for a version string
NoPath == <<>>

Absent == [v |-> FALSE, release |-> <<>>, suffix |-> "None"]

----------------------------------------------------------------------------
(* Bounds of the model *)

MaxTags == 4
MaxRuns == 2
MaxCalls == 2
MaxUpdated == 2

----------------------------------------------------------------------------
(* Raw version strings *)

Raw(v, release, suffix) == [v |-> v, release |-> release, suffix |-> suffix]

T_v0_9_0 == Raw(TRUE, <<0, 9, 0>>, "")
T_v1_0_0 == Raw(TRUE, <<1, 0, 0>>, "")
T_v1_1_0 == Raw(TRUE, <<1, 1, 0>>, "")
T_1_1 == Raw(FALSE, <<1, 1>>, "")
T_v1_2_0_rc1 == Raw(TRUE, <<1, 2, 0>>, "-rc1")
T_latest == Raw(FALSE, <<>>, "latest")

N_0_9_0 == Raw(FALSE, <<0, 9, 0>>, "")
N_1_0_0 == Raw(FALSE, <<1, 0, 0>>, "")
N_1_1_0 == Raw(FALSE, <<1, 1, 0>>, "")
N_1_2_0_rc1 == Raw(FALSE, <<1, 2, 0>>, "-rc1")

\* The tags the remote may carry, in the order listall_references lists them.
TagOrder == <<T_1_1, T_latest, T_v0_9_0, T_v1_0_0, T_v1_1_0, T_v1_2_0_rc1>>

TagUniverse == {TagOrder[k] : k \in 1..Len(TagOrder)}

DigitsLen(n) == IF n < 10 THEN 1 ELSE 2

RECURSIVE ReleaseLen(_)
ReleaseLen(release) ==
    IF release = <<>> THEN 0
    ELSE IF Len(release) = 1 THEN DigitsLen(release[1])
    ELSE DigitsLen(release[1]) + 1 + ReleaseLen(Tail(release))

SuffixLen(suffix) ==
    CASE suffix = "" -> 0
      [] suffix = "-rc1" -> 4
      [] suffix = ".post1" -> 6
      [] suffix = "latest" -> 6

\* len() of the raw string
StrLen(raw) == (IF raw.v THEN 1 ELSE 0) + ReleaseLen(raw.release) + SuffixLen(raw.suffix)

----------------------------------------------------------------------------
(* Version: doc.py lines 16-52, over pkg_resources.parse_version *)

\* Whether the string is a PEP 440 version.
Parsable(raw) == Len(raw.release) >= 1 /\ raw.suffix \in {"", "-rc1", ".post1"}

RECURSIVE StripZeros(_)
StripZeros(release) ==
    IF release # <<>> /\ release[Len(release)] = 0
    THEN StripZeros(SubSeq(release, 1, Len(release) - 1))
    ELSE release

\* The comparison key of packaging: epoch, release without trailing zeros,
\* pre-release (2 stands for "none", which sorts after every pre-release),
\* post-release (0 stands for "none").  A string that is no version gets the
\* legacy key, whose epoch -1 sorts before every version.
parse_version(raw) ==
    IF Parsable(raw)
    THEN [epoch |-> 0, release |-> StripZeros(raw.release),
          pre |-> IF raw.suffix = "-rc1" THEN 1 ELSE 2,
          post |-> IF raw.suffix = ".post1" THEN 1 ELSE 0,
          legacy |-> FALSE]
    ELSE [epoch |-> -1, release |-> <<>>, pre |-> 2, post |-> 0, legacy |-> TRUE]

Version(raw) == [name |-> raw, version |-> parse_version(raw)]

RECURSIVE TupleLess(_, _)
TupleLess(a, b) ==
    IF a = <<>> THEN b # <<>>
    ELSE IF b = <<>> THEN FALSE
    ELSE IF a[1] # b[1] THEN a[1] < b[1]
    ELSE TupleLess(Tail(a), Tail(b))

KeyLess(k, l) ==
    IF k.epoch # l.epoch THEN k.epoch < l.epoch
    ELSE IF k.release # l.release THEN TupleLess(k.release, l.release)
    ELSE IF k.pre # l.pre THEN k.pre < l.pre
    ELSE k.post < l.post

Version_lt(a, b) == KeyLess(a.version, b.version)

Version_eq(a, b) == a.version = b.version

Version_le(a, b) == Version_lt(a, b) \/ Version_eq(a, b)

\* a test that takes every version for a stable one
is_stable_always(v) == TRUE

is_stable(v) == v.version.legacy \/ (v.version.pre = 2 /\ v.version.post = 0)

\* "version in list": membership by __eq__
Contains(list, v) == \E k \in 1..Len(list) : Version_eq(list[k], v)

\* a sort that leaves the list as it is
sorted_unsorted(s) == s

\* sorted(list): ascending and stable, so the place of an element is one
\* more than the number of elements that are less, or equal and before it.
SortedPlace(s, k) ==
    1 + Cardinality({j \in 1..Len(s) : Version_lt(s[j], s[k]) \/ (Version_eq(s[j], s[k]) /\ j < k)})

sorted(s) == [p \in 1..Len(s) |-> s[CHOOSE k \in 1..Len(s) : SortedPlace(s, k) = p]]

Names(list) == {list[k].name : k \in 1..Len(list)}

----------------------------------------------------------------------------
(* ProcessedVersions: doc.py lines 111-148 *)

\* The ledger file holds the names yaml.dump wrote.  state is "whole" for a
\* file written to its end, "partial" for a file whose write was cut after
\* some of the entries, "empty" for a file truncated by open(.., "w") whose
\* content never reached the disk.
LedgerFile(names, state) == [versions |-> names, state |-> state]

\* yaml.load of an empty file gives None, and None["versions"] raises;
\* open raises when there is no file.
LoadRaises(file) == file.state \in {"empty", "missing"}

load_processed_versions(file) == [k \in 1..Len(file.versions) |-> Version(file.versions[k])]

SavedNames(list) == LET ordered == sorted(list) IN [k \in 1..Len(list) |-> ordered[k].name]

\* a save that writes the newest version alone
save_processed_versions_newest(list) ==
    LedgerFile(IF list = <<>> THEN <<>> ELSE <<list[Len(list)].name>>, "whole")

save_processed_versions(list) == LedgerFile(SavedNames(list), "whole")

\* What a crash between open(.., "w") and the end of yaml.dump can leave.
TornFiles(list) ==
    {LedgerFile(<<>>, "empty")}
    \cup {LedgerFile(SubSeq(SavedNames(list), 1, k), "partial") : k \in 0..(Len(list) - 1)}

----------------------------------------------------------------------------
(* TagUpdater: doc.py lines 211-270, with packer.py lines 16-21 *)

minimum_version == Version(N_1_0_0)

\* Packer.normalize_tag (Consul and Vault have the same): drop a leading "v".
normalize_tag(tag) == [tag EXCEPT !.v = FALSE]

\* repo.listall_references(), the tags among them
RECURSIVE ListTags(_, _)
ListTags(order, present) ==
    IF order = <<>> THEN <<>>
    ELSE IF order[1] \in present THEN <<order[1]>> \o ListTags(Tail(order), present)
    ELSE ListTags(Tail(order), present)

listall_references(present) == ListTags(TagOrder, present)

\* a loop that looks the tag up in the ledger by its name
KeepTag_by_name(version, stable, processed) ==
    /\ ~Version_lt(version, minimum_version)
    /\ ~(stable /\ ~is_stable(version))
    /\ ~\E k \in 1..Len(processed) : processed[k].name = version.name

\* One turn of the loop of check_updates: whether the tag is kept.
KeepTag(version, stable, processed) ==
    /\ ~Version_lt(version, minimum_version)
    /\ ~(stable /\ ~is_stable(version))
    /\ ~Contains(processed, version)

RECURSIVE ParseTags(_, _, _)
ParseTags(refs, stable, processed) ==
    IF refs = <<>> THEN <<>>
    ELSE LET version == Version(normalize_tag(refs[1]))
         IN (IF KeepTag(version, stable, processed) THEN <<version>> ELSE <<>>)
            \o ParseTags(Tail(refs), stable, processed)

check_updates(present, stable, processed) ==
    sorted(ParseTags(listall_references(present), stable, processed))

\* With a packaging that has no LegacyVersion, Version(tag) raises for a tag
\* that is no version.
HasInvalidTag(present) == \E t \in present : ~Parsable(normalize_tag(t))

----------------------------------------------------------------------------
(* BaseBuilder.build_version: doc.py lines 302-338 *)

build_path(version) == <<"build", version.name>>

Pair(version, path) == [version |-> version, path |-> path]

----------------------------------------------------------------------------
(* Dash: updater.py lines 19-156 *)

\* docset.json is modelled by the JSON document at its head, the length of
\* the file, and the number of bytes of an earlier, longer content that are
\* left after the document ("stale").  json.load raises when there are any.
DocsetFile(j, size, stale) == [json |-> j, size |-> size, stale |-> stale]

Entry(name, archive) == [version |-> name, archive |-> archive]

Json(current, specific_versions) == [version |-> current, specific_versions |-> specific_versions]

RECURSIVE EntriesLen(_)
EntriesLen(entries) ==
    IF entries = <<>> THEN 0
    ELSE 94 + 2 * StrLen(entries[1].version) + EntriesLen(Tail(entries))

\* len(json.dumps(j, indent=4)) for a document with the keys "version" (when
\* set) and "specific_versions", the archives being versions/<v>/Packer.tgz
JsonLen(j) ==
    31 + (IF j.version = Absent THEN 0 ELSE 19 + StrLen(j.version))
       + (IF j.specific_versions = <<>> THEN 0 ELSE 4 + EntriesLen(j.specific_versions))

JsonLoadRaises(file) == file.stale > 0

\* f.seek(0); json.dump(j, f, indent=4): the file is overwritten from its
\* start and keeps its length when the new text is shorter.
json_dump(file, j) ==
    DocsetFile(j,
               IF file.size > JsonLen(j) THEN file.size ELSE JsonLen(j),
               IF file.size > JsonLen(j) THEN file.size - JsonLen(j) ELSE 0)

relative_dst_doc_path(version) == <<"versions", version.name>>

\* specific_versions.sort(key=Version, reverse=True): descending, and equal
\* entries keep their order
SortDescPlace(s, k) ==
    1 + Cardinality({j \in 1..Len(s) :
                        \/ Version_lt(Version(s[k].version), Version(s[j].version))
                        \/ (Version_eq(Version(s[j].version), Version(s[k].version)) /\ j < k)})

SortDesc(s) == [p \in 1..Len(s) |-> s[CHOOSE k \in 1..Len(s) : SortDescPlace(s, k) = p]]

\* an append that does not look for the version first
append_version_unchecked(specific_versions, version, path) ==
    SortDesc(Append(specific_versions, Entry(version.name, path)))

append_version(specific_versions, version, path) ==
    IF \E k \in 1..Len(specific_versions) : specific_versions[k].version = version.name
    THEN specific_versions
    ELSE SortDesc(Append(specific_versions, Entry(version.name, path)))

\* add_version past the copy: the read-modify-write of docset.json
add_version_json(file, version) ==
    json_dump(file, [file.json EXCEPT !.specific_versions =
                        append_version(@, version, relative_dst_doc_path(version))])

\* update_newest_version, lines 114-116: the stable versions, sorted
StableVersions(j) ==
    sorted(SelectSeq([k \in 1..Len(j.specific_versions) |-> Version(j.specific_versions[k].version)],
                     is_stable))

\* the first of the sorted stable versions in place of the last
latest_stable_version_first(j) ==
    LET stable_versions == StableVersions(j)
    IN IF Len(stable_versions) = 0 THEN Version(Absent)
       ELSE stable_versions[1]

\* lines 118-123: the latest stable version, Version(Absent) when there is
\* no stable version and the method returns
latest_stable_version(j) ==
    LET stable_versions == StableVersions(j)
    IN IF Len(stable_versions) = 0 THEN Version(Absent)
       ELSE stable_versions[Len(stable_versions)]

\* lines 125-134: the path of the first updated version equal to the latest
\* stable one, None when there is none and the method returns
\* a search that takes the first updated version without comparing it
latest_stable_version_path_first(updated_versions, latest) ==
    IF updated_versions = <<>> \/ latest = Version(Absent) THEN NoPath
    ELSE updated_versions[1].path

RECURSIVE latest_stable_version_path(_, _)
latest_stable_version_path(updated_versions, latest) ==
    IF updated_versions = <<>> \/ latest = Version(Absent) THEN NoPath
    ELSE IF Version_eq(updated_versions[1].version, latest) THEN updated_versions[1].path
    ELSE latest_stable_version_path(Tail(updated_versions), latest)

\* lines 140-143
update_newest_json(file, latest) ==
    json_dump(file, [file.json EXCEPT !.version = latest.name])

----------------------------------------------------------------------------
(* The program: one tag-based project, as the loop of updater.py lines
   204-211 drives it, over runs of the tool that may crash *)

\* One run of the command of build_version and its exit code
Code(version, returncode) == [version |-> version.name, returncode |-> returncode]

NoHist ==
    [cur_tags |-> {}, cur_file |-> LedgerFile(<<>>, "whole"), cur_mem |-> <<>>,
     cur_failed |-> FALSE, cur_codes |-> <<>>, prev |-> <<>>, resume |-> <<>>,
     durable |-> {}, returncode |-> -1, path |-> NoPath]

\* The history of the call under way is dropped when the call is over.
CallOver(h) ==
    [h EXCEPT !.cur_tags = {}, !.cur_file = LedgerFile(<<>>, "whole"), !.cur_mem = <<>>,
              !.cur_failed = FALSE, !.cur_codes = <<>>, !.returncode = -1, !.path = NoPath]

NoCall == [n |-> 0, last |-> <<>>, before |-> <<>>]

\* __main__ is not running
NoMain == [docs |-> <<>>, input |-> <<>>, mem |-> <<>>, n |-> 0, k |-> 0, ended |-> FALSE]

\* The manifest and the archives a doc set has for the versions of a ledger.
SeedEntries(names) == SortDesc([k \in 1..Len(names) |-> Entry(names[k], <<"versions", names[k]>>)])

SeedJson(names) ==
    Json(IF names = <<>> THEN Absent ELSE names[Len(names)], SeedEntries(names))

Seeds == {<<>>, <<N_1_0_0>>}

Init ==
    /\ tags \in {S \in SUBSET TagUniverse : Cardinality(S) <= MaxTags}
    /\ head = Absent
    /\ stable_version \in BOOLEAN
    /\ \E names \in Seeds :
        /\ ledger_file = LedgerFile(names, "whole")
        /\ docset_json = DocsetFile(SeedJson(names), JsonLen(SeedJson(names)), 0)
        /\ version_dirs = {names[k] : k \in 1..Len(names)}
        /\ root_archive = IF names = <<>> THEN NoPath ELSE <<"build", names[Len(names)]>>
        /\ hist = [NoHist EXCEPT !.durable = {names[k] : k \in 1..Len(names)}]
    /\ processed_versions = <<>>
    /\ versions = <<>>
    /\ updated = <<>>
    /\ pc = "stopped"
    /\ i = 0
    /\ runs = 0
    /\ call = NoCall
    /\ main = NoMain
    /\ repository_path = "complete"
    /\ repo = "None"

\* pygit2.Repository(path), doc.py line 197, on a directory that holds a
\* repository: the repository as it is on disk
Repository(path) == path

\* The process is gone, and its memory with it.
Stopped ==
    /\ pc' = "stopped"
    /\ processed_versions' = <<>>
    /\ versions' = <<>>
    /\ updated' = <<>>
    /\ i' = 0
    /\ repo' = "None"

disk == <<ledger_file, docset_json, version_dirs, root_archive>>

\* upstream: a new tag is pushed between two runs
Release(t) ==
    /\ pc \in {"stopped", "idle"}
    /\ t \notin tags
    /\ Cardinality(tags) < MaxTags
    /\ tags' = tags \cup {t}
    /\ UNCHANGED <<head, main, stable_version, processed_versions, versions, updated, pc, i,
                   runs, hist, call>>
    /\ UNCHANGED disk
    /\ UNCHANGED <<repository_path, repo>>

\* ProcessedVersions.__init__: doc.py lines 115-139
Start ==
    /\ pc = "stopped"
    /\ ~LoadRaises(ledger_file)
    /\ processed_versions' = load_processed_versions(ledger_file)
    /\ pc' = "idle"
    /\ UNCHANGED <<tags, head, main, stable_version, versions, updated, i, runs, hist, call>>
    /\ UNCHANGED disk
    /\ UNCHANGED <<repository_path, repo>>

StartRaises ==
    /\ pc = "stopped"
    /\ LoadRaises(ledger_file)
    /\ UNCHANGED <<tags, head, main, stable_version, processed_versions, versions, updated, pc, i,
                   runs, hist, call>>
    /\ UNCHANGED disk
    /\ UNCHANGED <<repository_path, repo>>

\* Documentation.update, lines 101-102: check_updates
Update ==
    /\ pc = "idle"
    /\ runs < MaxRuns
    /\ runs' = runs + 1
    /\ versions' = check_updates(tags, stable_version, processed_versions)
    /\ updated' = <<>>
    /\ i' = 1
    /\ pc' = "build"
    /\ hist' = [hist EXCEPT !.cur_tags = tags, !.cur_file = ledger_file,
                            !.cur_mem = processed_versions, !.cur_failed = FALSE,
                            !.cur_codes = <<>>, !.returncode = -1, !.path = NoPath]
    /\ UNCHANGED <<tags, head, main, stable_version, processed_versions, call>>
    /\ UNCHANGED disk
    /\ repo' = Repository(repository_path)
    /\ UNCHANGED repository_path

\* Version(tag) raises InvalidVersion; nothing catches it
UpdateRaises ==
    /\ pc = "idle"
    /\ runs < MaxRuns
    /\ HasInvalidTag(tags)
    /\ runs' = runs + 1
    /\ Stopped
    /\ hist' = CallOver([hist EXCEPT !.prev = <<>>])
    /\ UNCHANGED <<tags, head, main, stable_version, call>>
    /\ UNCHANGED disk
    /\ UNCHANGED repository_path

\* a success that writes the ledger file before it appends the version
BuildSuccess_save_first ==
    /\ pc = "build"
    /\ i <= Len(versions)
    /\ processed_versions' = Append(processed_versions, versions[i])
    /\ ledger_file' = save_processed_versions(processed_versions)
    /\ updated' = Append(updated, Pair(versions[i], build_path(versions[i])))
    /\ i' = i + 1
    /\ hist' = [hist EXCEPT !.returncode = 0, !.path = build_path(versions[i]),
                            !.cur_codes = Append(@, Code(versions[i], 0)),
                            !.durable = @ \cup {versions[i].name}]
    /\ UNCHANGED <<tags, head, main, stable_version, versions, pc, runs, call>>
    /\ UNCHANGED <<docset_json, version_dirs, root_archive>>
    /\ UNCHANGED <<repository_path, repo>>

\* build_version, lines 321-330: the command exited with 0
BuildSuccess ==
    /\ pc = "build"
    /\ i <= Len(versions)
    /\ processed_versions' = Append(processed_versions, versions[i])
    /\ ledger_file' = save_processed_versions(processed_versions')
    /\ updated' = Append(updated, Pair(versions[i], build_path(versions[i])))
    /\ i' = i + 1
    /\ hist' = [hist EXCEPT !.returncode = 0, !.path = build_path(versions[i]),
                            !.cur_codes = Append(@, Code(versions[i], 0)),
                            !.durable = @ \cup {versions[i].name}]
    /\ UNCHANGED <<tags, head, main, stable_version, versions, pc, runs, call>>
    /\ UNCHANGED <<docset_json, version_dirs, root_archive>>
    /\ UNCHANGED <<repository_path, repo>>

\* a failure that records the version all the same
BuildFailure_records ==
    /\ pc = "build"
    /\ i <= Len(versions)
    /\ processed_versions' = Append(processed_versions, versions[i])
    /\ ledger_file' = save_processed_versions(processed_versions')
    /\ i' = i + 1
    /\ hist' = [hist EXCEPT !.returncode = 1, !.path = NoPath, !.cur_failed = TRUE,
                            !.cur_codes = Append(@, Code(versions[i], 1))]
    /\ UNCHANGED <<tags, head, main, stable_version, versions, updated, pc, runs, call>>
    /\ UNCHANGED <<docset_json, version_dirs, root_archive>>
    /\ UNCHANGED <<repository_path, repo>>

\* a failure that ends the loop of update()
BuildFailure_breaks ==
    /\ pc = "build"
    /\ i <= Len(versions)
    /\ i' = Len(versions) + 1
    /\ hist' = [hist EXCEPT !.returncode = 1, !.path = NoPath, !.cur_failed = TRUE,
                            !.cur_codes = Append(@, Code(versions[i], 1))]
    /\ UNCHANGED <<tags, head, main, stable_version, processed_versions, versions, updated, pc,
                   runs, call>>
    /\ UNCHANGED disk
    /\ UNCHANGED <<repository_path, repo>>

\* build_version, lines 332-338: any other exit code
BuildFailure ==
    /\ pc = "build"
    /\ i <= Len(versions)
    /\ i' = i + 1
    /\ hist' = [hist EXCEPT !.returncode = 1, !.path = NoPath, !.cur_failed = TRUE,
                            !.cur_codes = Append(@, Code(versions[i], 1))]
    /\ UNCHANGED <<tags, head, main, stable_version, processed_versions, versions, updated, pc,
                   runs, call>>
    /\ UNCHANGED disk
    /\ UNCHANGED <<repository_path, repo>>

\* The command exited with 0 and the process dies inside
\* save_processed_versions, after open(.., "w") has truncated the file.
BuildCrashInSave ==
    /\ pc = "build"
    /\ i <= Len(versions)
    /\ ledger_file' \in TornFiles(Append(processed_versions, versions[i]))
    /\ Stopped
    /\ hist' = [CallOver(hist) EXCEPT !.prev = <<>>, !.resume = <<>>, !.returncode = 0]
    /\ UNCHANGED <<tags, head, main, stable_version, runs, call>>
    /\ UNCHANGED <<docset_json, version_dirs, root_archive>>
    /\ UNCHANGED repository_path

\* The process dies between two steps.
Crash ==
    /\ pc \in {"build", "add_versions", "newest_dump"}
    /\ Stopped
    /\ hist' = CallOver([hist EXCEPT
                  !.prev = IF pc = "build" THEN <<>> ELSE @,
                  !.resume = IF pc = "build" /\ i >= 2 /\ Len(updated) = i - 1
                             THEN <<[candidates |-> versions, k |-> i - 1, tags |-> hist.cur_tags]>>
                             ELSE <<>>])
    /\ UNCHANGED <<tags, head, main, stable_version, runs, call>>
    /\ UNCHANGED disk
    /\ UNCHANGED repository_path

\* update() returns the list; updater.py line 211 hands it to add_versions
Return ==
    /\ pc = "build"
    /\ i > Len(versions)
    /\ pc' = "add_versions"
    /\ i' = 1
    /\ hist' = CallOver([hist EXCEPT
                  !.prev = <<[tags |-> hist.cur_tags, failed |-> hist.cur_failed,
                             built |-> Len(updated)]>>,
                  !.resume = <<>>])
    /\ UNCHANGED <<tags, head, main, stable_version, processed_versions, versions, updated,
                   runs, call>>
    /\ UNCHANGED disk
    /\ UNCHANGED <<repository_path, repo>>

\* Dash.add_version, updater.py lines 32-64
AddVersion ==
    /\ pc = "add_versions"
    /\ i <= Len(updated)
    /\ ~JsonLoadRaises(docset_json)
    /\ version_dirs' = version_dirs \cup {updated[i].version.name}
    /\ docset_json' = add_version_json(docset_json, updated[i].version)
    /\ i' = i + 1
    /\ UNCHANGED <<tags, head, main, stable_version, ledger_file, processed_versions, versions,
                   updated, pc, root_archive, runs, hist, call>>
    /\ UNCHANGED <<repository_path, repo>>

\* json.load raises on the bytes left after the document
AddVersionRaises ==
    /\ pc = "add_versions"
    /\ i <= Len(updated)
    /\ JsonLoadRaises(docset_json)
    /\ version_dirs' = version_dirs \cup {updated[i].version.name}
    /\ Stopped
    /\ UNCHANGED <<tags, head, main, stable_version, ledger_file, docset_json, root_archive,
                   runs, hist, call>>
    /\ UNCHANGED repository_path

\* Dash.update_newest_version, lines 109-134: nothing to update
UpdateNewestReturn ==
    /\ pc = "add_versions"
    /\ i > Len(updated)
    /\ ~JsonLoadRaises(docset_json)
    /\ \E latest \in {latest_stable_version(docset_json.json)} :
          latest_stable_version_path(updated, latest) = NoPath
    /\ pc' = "idle"
    /\ UNCHANGED <<tags, head, main, stable_version, processed_versions, versions, updated, i,
                   runs, hist, call>>
    /\ UNCHANGED disk
    /\ UNCHANGED <<repository_path, repo>>

UpdateNewestRaises ==
    /\ pc = "add_versions"
    /\ i > Len(updated)
    /\ JsonLoadRaises(docset_json)
    /\ Stopped
    /\ UNCHANGED <<tags, head, main, stable_version, runs, hist, call>>
    /\ UNCHANGED disk
    /\ UNCHANGED repository_path

\* lines 136-138: shutil.copy of the latest documentation to the doc set
UpdateNewestCopy ==
    /\ pc = "add_versions"
    /\ i > Len(updated)
    /\ ~JsonLoadRaises(docset_json)
    /\ \E latest \in {latest_stable_version(docset_json.json)} :
          /\ latest_stable_version_path(updated, latest) # NoPath
          /\ root_archive' = latest_stable_version_path(updated, latest)
    /\ pc' = "newest_dump"
    /\ UNCHANGED <<tags, head, main, stable_version, ledger_file, processed_versions, versions,
                   updated, i, docset_json, version_dirs, runs, hist, call>>
    /\ UNCHANGED <<repository_path, repo>>

\* lines 140-143
UpdateNewestDump ==
    /\ pc = "newest_dump"
    /\ docset_json' = update_newest_json(docset_json, latest_stable_version(docset_json.json))
    /\ pc' = "idle"
    /\ UNCHANGED <<tags, head, main, stable_version, ledger_file, processed_versions, versions,
                   updated, i, version_dirs, root_archive, runs, hist, call>>
    /\ UNCHANGED <<repository_path, repo>>

\* the tool ends
Exit ==
    /\ pc = "idle"
    /\ Stopped
    /\ UNCHANGED <<tags, head, main, stable_version, runs, hist, call>>
    /\ UNCHANGED disk
    /\ UNCHANGED repository_path

Next ==
    \/ \E t \in TagUniverse : Release(t)
    \/ Start
    \/ StartRaises
    \/ Update
    \/ UpdateRaises
    \/ BuildSuccess
    \/ BuildFailure
    \/ BuildCrashInSave
    \/ Crash
    \/ Return
    \/ AddVersion
    \/ AddVersionRaises
    \/ UpdateNewestReturn
    \/ UpdateNewestRaises
    \/ UpdateNewestCopy
    \/ UpdateNewestDump
    \/ Exit

Spec == Init /\ [][Next]_vars

----------------------------------------------------------------------------
(* The tool run again and again: the loop of updater.py lines 204-211 in
   one process after the other, without a bound on the number of runs *)

RerunInit ==
    /\ Init
    /\ tags \subseteq {T_v1_0_0, T_1_1}
    /\ stable_version = FALSE

\* Documentation.update, lines 101-102: check_updates
RerunUpdate ==
    /\ pc = "idle"
    /\ ~HasInvalidTag(tags)
    /\ versions' = check_updates(tags, stable_version, processed_versions)
    /\ updated' = <<>>
    /\ i' = 1
    /\ pc' = "build"
    /\ hist' = [hist EXCEPT !.cur_tags = tags, !.cur_file = ledger_file,
                            !.cur_mem = processed_versions, !.cur_failed = FALSE,
                            !.cur_codes = <<>>, !.returncode = -1, !.path = NoPath]
    /\ UNCHANGED <<tags, head, main, stable_version, processed_versions, runs, call>>
    /\ UNCHANGED disk
    /\ repo' = Repository(repository_path)
    /\ UNCHANGED repository_path

\* The steps a process takes by itself once it runs
RerunStep ==
    \/ Start
    \/ StartRaises
    \/ RerunUpdate
    \/ BuildSuccess
    \/ BuildFailure
    \/ Return
    \/ AddVersion
    \/ AddVersionRaises
    \/ UpdateNewestReturn
    \/ UpdateNewestRaises
    \/ UpdateNewestCopy
    \/ UpdateNewestDump
    \/ Exit

RerunNext ==
    \/ \E t \in {T_v1_0_0, T_1_1} : Release(t)
    \/ RerunStep
    \/ BuildCrashInSave
    \/ Crash

\* A process that runs takes its next step, and the tool is started again
\* after it has ended; nothing is assumed about the crashes.
RerunSpec == RerunInit /\ [][RerunNext]_vars /\ WF_vars(RerunStep)

----------------------------------------------------------------------------
(* RepoUpdater.initialize_repo, doc.py lines 183-197, in the runs of a
   tag-based project.  repository_path on disk is "absent", "empty" (a
   directory that holds no repository), "partial" (the repository that
   clone_repository has initialized, its fetch not finished) or "complete" *)

RepoInit ==
    /\ tags \in SUBSET {T_v1_0_0, T_1_1}
    /\ head = Absent
    /\ stable_version = FALSE
    /\ \E names \in Seeds :
        /\ ledger_file = LedgerFile(names, "whole")
        /\ docset_json = DocsetFile(SeedJson(names), JsonLen(SeedJson(names)), 0)
        /\ version_dirs = {names[k] : k \in 1..Len(names)}
        /\ root_archive = IF names = <<>> THEN NoPath ELSE <<"build", names[Len(names)]>>
        /\ hist = [NoHist EXCEPT !.durable = {names[k] : k \in 1..Len(names)}]
    /\ processed_versions = <<>>
    /\ versions = <<>>
    /\ updated = <<>>
    /\ pc = "stopped"
    /\ i = 0
    /\ runs = 0
    /\ call = NoCall
    /\ main = NoMain
    /\ repository_path \in {"absent", "complete"}
    /\ repo = "None"

\* lines 190-194: there is no directory; mkdir, clone_repository and
\* create_reference return
InitializeRepoClone ==
    /\ pc = "idle"
    /\ repository_path = "absent"
    /\ repository_path' = "complete"
    /\ repo' = "complete"
    /\ pc' = "fetch"
    /\ UNCHANGED <<tags, head, main, stable_version, processed_versions, versions, updated, i,
                   runs, hist, call>>
    /\ UNCHANGED disk

\* lines 192-193: clone_repository raises after mkdir; it removes what it
\* has written and leaves the directory it was given
InitializeRepoCloneRaises ==
    /\ pc = "idle"
    /\ repository_path = "absent"
    /\ repository_path' = "empty"
    /\ Stopped
    /\ UNCHANGED <<tags, head, main, stable_version, runs, hist, call>>
    /\ UNCHANGED disk

\* lines 192-193: the process dies after mkdir, before clone_repository has
\* initialized the repository or while it fetches
InitializeRepoCloneCrash ==
    /\ pc = "idle"
    /\ repository_path = "absent"
    /\ repository_path' \in {"empty", "partial"}
    /\ Stopped
    /\ UNCHANGED <<tags, head, main, stable_version, runs, hist, call>>
    /\ UNCHANGED disk

\* lines 195-197: the directory exists and holds a repository
InitializeRepoOpen ==
    /\ pc = "idle"
    /\ repository_path \in {"partial", "complete"}
    /\ repo' = Repository(repository_path)
    /\ pc' = "fetch"
    /\ UNCHANGED <<tags, head, main, stable_version, processed_versions, versions, updated, i,
                   runs, hist, call>>
    /\ UNCHANGED disk
    /\ UNCHANGED repository_path

\* lines 195-197: the directory exists and holds no repository;
\* Repository(path) raises GitError
InitializeRepoOpenRaises ==
    /\ pc = "idle"
    /\ repository_path = "empty"
    /\ Stopped
    /\ UNCHANGED <<tags, head, main, stable_version, runs, hist, call>>
    /\ UNCHANGED disk
    /\ UNCHANGED repository_path

\* The tags that listall_references gives after the fetch of lines 205-207:
\* those of the remote, or, from a repository whose clone was interrupted
\* before the remote was set, the ones it holds
FetchedTags == IF repo = "complete" THEN {tags} ELSE SUBSET tags

\* the rest of check_updates: doc.py lines 205-207 and 248-270
RepoCheckUpdates ==
    /\ pc = "fetch"
    /\ \E fetched \in FetchedTags :
        /\ versions' = check_updates(fetched, stable_version, processed_versions)
        /\ hist' = [hist EXCEPT !.cur_tags = fetched, !.cur_file = ledger_file,
                                !.cur_mem = processed_versions, !.cur_failed = FALSE,
                                !.cur_codes = <<>>, !.returncode = -1, !.path = NoPath]
    /\ updated' = <<>>
    /\ i' = 1
    /\ pc' = "build"
    /\ UNCHANGED <<tags, head, main, stable_version, processed_versions, runs, call>>
    /\ UNCHANGED disk
    /\ UNCHANGED <<repository_path, repo>>

RepoNext ==
    \/ \E t \in {T_v1_0_0, T_1_1} : Release(t)
    \/ Start
    \/ StartRaises
    \/ InitializeRepoClone
    \/ InitializeRepoCloneRaises
    \/ InitializeRepoCloneCrash
    \/ InitializeRepoOpen
    \/ InitializeRepoOpenRaises
    \/ RepoCheckUpdates
    \/ BuildSuccess
    \/ BuildFailure
    \/ BuildCrashInSave
    \/ Crash
    \/ Return
    \/ AddVersion
    \/ AddVersionRaises
    \/ UpdateNewestReturn
    \/ UpdateNewestRaises
    \/ UpdateNewestCopy
    \/ UpdateNewestDump
    \/ Exit

RepoSpec == RepoInit /\ [][RepoNext]_vars

----------------------------------------------------------------------------
(* Terraform: the version comes from the content of the repository *)

\* The values of h.version in content/config.rb
Heads == {N_1_0_0, T_1_1, N_1_1_0, N_1_2_0_rc1}

\* Terraform.check_updates, terraform.py lines 36-46: the early return
\* leaves self.versions as it was
Terraform_check_updates(version_str, processed, old_versions) ==
    IF Contains(processed, Version(version_str))
    THEN old_versions
    ELSE <<Version(version_str)>>

TerraformInit ==
    /\ tags = {}
    /\ head \in Heads
    /\ stable_version = FALSE
    /\ \E names \in Seeds :
        /\ ledger_file = LedgerFile(names, "whole")
        /\ docset_json = DocsetFile(SeedJson(names), JsonLen(SeedJson(names)), 0)
        /\ version_dirs = {names[k] : k \in 1..Len(names)}
        /\ root_archive = IF names = <<>> THEN NoPath ELSE <<"build", names[Len(names)]>>
        /\ hist = [NoHist EXCEPT !.durable = {names[k] : k \in 1..Len(names)}]
    /\ processed_versions = <<>>
    /\ versions = <<>>
    /\ updated = <<>>
    /\ pc = "stopped"
    /\ i = 0
    /\ runs = 0
    /\ call = NoCall
    /\ main = NoMain
    /\ repository_path = "complete"
    /\ repo = "None"

\* upstream: a commit changes h.version between two runs
Commit(h) ==
    /\ pc \in {"stopped", "idle"}
    /\ h # head
    /\ head' = h
    /\ UNCHANGED <<tags, main, stable_version, processed_versions, versions, updated, pc, i,
                   runs, hist, call>>
    /\ UNCHANGED disk
    /\ UNCHANGED <<repository_path, repo>>

\* Documentation.update, lines 101-102, with Terraform.check_updates
TerraformUpdate ==
    /\ pc = "idle"
    /\ runs < MaxRuns
    /\ runs' = runs + 1
    /\ versions' = Terraform_check_updates(head, processed_versions, versions)
    /\ updated' = <<>>
    /\ i' = 1
    /\ pc' = "build"
    /\ hist' = [hist EXCEPT !.cur_tags = {head}, !.cur_file = ledger_file,
                            !.cur_mem = processed_versions, !.cur_failed = FALSE,
                            !.cur_codes = <<>>, !.returncode = -1, !.path = NoPath]
    /\ UNCHANGED <<tags, head, main, stable_version, processed_versions, call>>
    /\ UNCHANGED disk
    /\ repo' = Repository(repository_path)
    /\ UNCHANGED repository_path

TerraformNext ==
    \/ \E h \in Heads : Commit(h)
    \/ Start
    \/ StartRaises
    \/ TerraformUpdate
    \/ BuildSuccess
    \/ BuildFailure
    \/ BuildCrashInSave
    \/ Crash
    \/ Return
    \/ AddVersion
    \/ AddVersionRaises
    \/ UpdateNewestReturn
    \/ UpdateNewestRaises
    \/ UpdateNewestCopy
    \/ UpdateNewestDump
    \/ Exit

TerraformSpec == TerraformInit /\ [][TerraformNext]_vars

----------------------------------------------------------------------------
(* __main__, updater.py lines 164-211: the projects are constructed, then
   processed one after the other.  The variables of the pipeline hold the
   state of the project in process. *)

\* A docset.json kept by hand may be longer than what json.dump writes.
Paddings == {0, 2}

\* The projects of lines 175-202, in their order
DocOrder == <<"Kubernetes", "Packer", "Terraform">>

\* The projects configured: those of __main__, or some of them
DocLists ==
    {ListTags(DocOrder, S) : S \in SUBSET {DocOrder[k] : k \in 1..Len(DocOrder)}}

\* What a project finds when the tool runs: its ledger file, the tags or
\* the content of its repository, whether clone and fetch work, and the
\* bytes left after the document of its docset.json
Input(ledger, t, h, fetch_fails, stale) ==
    [ledger |-> ledger, tags |-> t, head |-> h, fetch_fails |-> fetch_fails, stale |-> stale]

LedgerInputs ==
    {LedgerFile(<<>>, "missing"), LedgerFile(<<>>, "whole"), LedgerFile(<<N_1_0_0>>, "whole")}

Inputs(doc) ==
    IF doc = "Packer"
    THEN {Input(l, t, Absent, f, st) :
             l \in LedgerInputs, t \in SUBSET {T_1_1, T_v1_0_0}, f \in BOOLEAN, st \in Paddings}
    ELSE IF doc = "Terraform"
    THEN {Input(l, {}, h, f, st) :
             l \in LedgerInputs, h \in {N_1_0_0, N_1_1_0}, f \in BOOLEAN, st \in Paddings}
    ELSE {Input(LedgerFile(<<>>, "whole"), {}, Absent, FALSE, 0)}

InputLists(docs) ==
    IF docs = <<>> THEN {<<>>}
    ELSE IF Len(docs) = 1 THEN {<<a>> : a \in Inputs(docs[1])}
    ELSE IF Len(docs) = 2 THEN {<<a, b>> : a \in Inputs(docs[1]), b \in Inputs(docs[2])}
    ELSE {<<a, b, c>> : a \in Inputs(docs[1]), b \in Inputs(docs[2]), c \in Inputs(docs[3])}

MainInit ==
    /\ \E docs \in DocLists : \E input \in InputLists(docs) :
          main = [NoMain EXCEPT !.docs = docs, !.input = input]
    /\ tags = {}
    /\ head = Absent
    /\ stable_version = FALSE
    /\ ledger_file = LedgerFile(<<>>, "whole")
    /\ docset_json = DocsetFile(SeedJson(<<>>), JsonLen(SeedJson(<<>>)), 0)
    /\ version_dirs = {}
    /\ root_archive = NoPath
    /\ hist = NoHist
    /\ processed_versions = <<>>
    /\ versions = <<>>
    /\ updated = <<>>
    /\ pc = "construct"
    /\ i = 0
    /\ runs = 0
    /\ call = NoCall
    /\ repository_path = "complete"
    /\ repo = "None"

\* Kubernetes(...) raises TypeError: the class leaves name and build_version
\* abstract, and calls Documentation.__init__ without path
ConstructorRaises(doc, input) == doc = "Kubernetes" \/ LoadRaises(input.ledger)

\* lines 175-202: the next project is constructed, its ledger loaded
MainConstruct ==
    /\ pc = "construct"
    /\ main.n < Len(main.docs)
    /\ ~ConstructorRaises(main.docs[main.n + 1], main.input[main.n + 1])
    /\ main' = [main EXCEPT !.n = @ + 1,
                  !.mem = Append(@, load_processed_versions(main.input[main.n + 1].ledger))]
    /\ UNCHANGED <<tags, head, stable_version, processed_versions, versions, updated, pc, i,
                   runs, hist, call>>
    /\ UNCHANGED disk
    /\ UNCHANGED <<repository_path, repo>>

\* the constructor raises, and nothing catches it
MainConstructRaises ==
    /\ pc = "construct"
    /\ main.n < Len(main.docs)
    /\ ConstructorRaises(main.docs[main.n + 1], main.input[main.n + 1])
    /\ pc' = "stopped"
    /\ UNCHANGED <<tags, head, main, stable_version, processed_versions, versions, updated, i,
                   runs, hist, call>>
    /\ UNCHANGED disk
    /\ UNCHANGED <<repository_path, repo>>

\* line 205
MainLoop ==
    /\ pc = "construct"
    /\ main.n = Len(main.docs)
    /\ pc' = "idle"
    /\ UNCHANGED <<tags, head, main, stable_version, processed_versions, versions, updated, i,
                   runs, hist, call>>
    /\ UNCHANGED disk
    /\ UNCHANGED <<repository_path, repo>>

\* The files of a project's doc set
MainDocset(input) ==
    LET names == input.ledger.versions
    IN DocsetFile(SeedJson(names), JsonLen(SeedJson(names)) + input.stale, input.stale)

\* line 208: doc.update() of the next project, up to the end of check_updates
MainUpdate ==
    /\ pc = "idle"
    /\ main.k < Len(main.docs)
    /\ ~main.input[main.k + 1].fetch_fails
    /\ \E doc \in {main.docs[main.k + 1]} : \E input \in {main.input[main.k + 1]} :
        /\ tags' = input.tags
        /\ head' = input.head
        /\ stable_version' = (doc = "Packer")
        /\ processed_versions' = main.mem[main.k + 1]
        /\ ledger_file' = input.ledger
        /\ docset_json' = MainDocset(input)
        /\ version_dirs' = {input.ledger.versions[j] : j \in 1..Len(input.ledger.versions)}
        /\ root_archive' = IF input.ledger.versions = <<>> THEN NoPath
                           ELSE <<"build", input.ledger.versions[Len(input.ledger.versions)]>>
        /\ versions' = IF doc = "Terraform"
                       THEN Terraform_check_updates(input.head, main.mem[main.k + 1], <<>>)
                       ELSE check_updates(input.tags, doc = "Packer", main.mem[main.k + 1])
        /\ hist' = [hist EXCEPT !.cur_tags = IF doc = "Terraform" THEN {input.head} ELSE input.tags,
                                !.cur_file = input.ledger,
                                !.cur_mem = main.mem[main.k + 1], !.cur_failed = FALSE,
                                !.cur_codes = <<>>, !.returncode = -1, !.path = NoPath]
    /\ main' = [main EXCEPT !.k = @ + 1]
    /\ updated' = <<>>
    /\ i' = 1
    /\ pc' = "build"
    /\ UNCHANGED <<runs, call>>
    /\ repo' = Repository(repository_path)
    /\ UNCHANGED repository_path

\* clone_repository or remote.fetch raises, and nothing catches it
MainUpdateRaises ==
    /\ pc = "idle"
    /\ main.k < Len(main.docs)
    /\ main.input[main.k + 1].fetch_fails
    /\ main' = [main EXCEPT !.k = @ + 1]
    /\ pc' = "stopped"
    /\ UNCHANGED <<tags, head, stable_version, processed_versions, versions, updated, i,
                   runs, hist, call>>
    /\ UNCHANGED disk
    /\ UNCHANGED <<repository_path, repo>>

\* the loop is over
MainEnd ==
    /\ pc = "idle"
    /\ main.k = Len(main.docs)
    /\ main' = [main EXCEPT !.ended = TRUE]
    /\ pc' = "stopped"
    /\ UNCHANGED <<tags, head, stable_version, processed_versions, versions, updated, i,
                   runs, hist, call>>
    /\ UNCHANGED disk
    /\ UNCHANGED <<repository_path, repo>>

MainNext ==
    \/ MainConstruct
    \/ MainConstructRaises
    \/ MainLoop
    \/ MainUpdate
    \/ MainUpdateRaises
    \/ BuildSuccess
    \/ BuildFailure
    \/ Return
    \/ AddVersion
    \/ AddVersionRaises
    \/ UpdateNewestReturn
    \/ UpdateNewestRaises
    \/ UpdateNewestCopy
    \/ UpdateNewestDump
    \/ MainEnd

MainSpec == MainInit /\ [][MainNext]_vars

----------------------------------------------------------------------------
(* Kubernetes, kubernetes.py: the methods of the class, called on an object
   with the fields that __init__ sets.  __main__ never gets such an object,
   as the constructor raises; the methods are modelled as they are written. *)

\* Kubernetes._load_versions, lines 52-56
Kubernetes_load_versions(file) == [k \in 1..Len(file.versions) |-> Version(file.versions[k])]

\* Kubernetes._save_versions, lines 68-72: the names in the order of the list
Kubernetes_save_versions(list) == LedgerFile([k \in 1..Len(list) |-> list[k].name], "whole")

\* One turn of the loop of Kubernetes.check_updates, lines 93-102
Kubernetes_KeepTag(version, processed) ==
    /\ ~Version_lt(version, minimum_version)
    /\ ~Contains(processed, version)

RECURSIVE Kubernetes_ParseTags(_, _)
Kubernetes_ParseTags(refs, processed) ==
    IF refs = <<>> THEN <<>>
    ELSE LET version == Version(normalize_tag(refs[1]))
         IN (IF Kubernetes_KeepTag(version, processed) THEN <<version>> ELSE <<>>)
            \o Kubernetes_ParseTags(Tail(refs), processed)

\* Kubernetes.check_updates, lines 74-105
Kubernetes_check_updates(present, processed) ==
    sorted(Kubernetes_ParseTags(listall_references(present), processed))

KubernetesInit ==
    /\ tags \in {S \in SUBSET TagUniverse : Cardinality(S) <= MaxTags /\ ~HasInvalidTag(S)}
    /\ head = Absent
    /\ stable_version = FALSE
    /\ \E names \in Seeds :
        /\ ledger_file = LedgerFile(names, "whole")
        /\ processed_versions = Kubernetes_load_versions(ledger_file)
    /\ docset_json = DocsetFile(SeedJson(<<>>), JsonLen(SeedJson(<<>>)), 0)
    /\ version_dirs = {}
    /\ root_archive = NoPath
    /\ hist = NoHist
    /\ versions = <<>>
    /\ updated = <<>>
    /\ pc = "idle"
    /\ i = 0
    /\ runs = 0
    /\ call = NoCall
    /\ main = NoMain
    /\ repository_path = "complete"
    /\ repo = "complete"

KubernetesCheckUpdates ==
    /\ pc = "idle"
    /\ runs < MaxRuns
    /\ runs' = runs + 1
    /\ versions' = Kubernetes_check_updates(tags, processed_versions)
    /\ updated' = <<>>
    /\ i' = 1
    /\ pc' = "update_version"
    /\ UNCHANGED <<tags, head, main, stable_version, processed_versions, hist, call>>
    /\ UNCHANGED disk
    /\ UNCHANGED <<repository_path, repo>>

\* Kubernetes.update_version, lines 121-130: the command exited with 0
KubernetesUpdateSuccess ==
    /\ pc = "update_version"
    /\ i <= Len(versions)
    /\ processed_versions' = Append(processed_versions, versions[i])
    /\ ledger_file' = Kubernetes_save_versions(processed_versions')
    /\ updated' = Append(updated, Pair(versions[i], build_path(versions[i])))
    /\ i' = i + 1
    /\ UNCHANGED <<tags, head, main, stable_version, versions, pc, runs, hist, call>>
    /\ UNCHANGED <<docset_json, version_dirs, root_archive>>
    /\ UNCHANGED <<repository_path, repo>>

\* lines 131-138: any other exit code
KubernetesUpdateFailure ==
    /\ pc = "update_version"
    /\ i <= Len(versions)
    /\ i' = i + 1
    /\ UNCHANGED <<tags, head, main, stable_version, processed_versions, versions, updated, pc,
                   runs, hist, call>>
    /\ UNCHANGED disk
    /\ UNCHANGED <<repository_path, repo>>

KubernetesDone ==
    /\ pc = "update_version"
    /\ i > Len(versions)
    /\ pc' = "idle"
    /\ UNCHANGED <<tags, head, main, stable_version, processed_versions, versions, updated, i,
                   runs, hist, call>>
    /\ UNCHANGED disk
    /\ UNCHANGED <<repository_path, repo>>

KubernetesNext ==
    \/ \E t \in TagUniverse \ {T_latest} : Release(t)
    \/ KubernetesCheckUpdates
    \/ KubernetesUpdateSuccess
    \/ KubernetesUpdateFailure
    \/ KubernetesDone

KubernetesSpec == KubernetesInit /\ [][KubernetesNext]_vars

----------------------------------------------------------------------------
(* Dash alone: add_version and update_newest_version called with any
   version and any list of updated versions, on any manifest *)

NameOrder == <<N_1_0_0, T_1_1, N_1_1_0, N_1_2_0_rc1>>

NameUniverse == {NameOrder[k] : k \in 1..Len(NameOrder)}

\* The manifests a doc set starts with: up to two entries, the current
\* version unset or one of the stable entries.
Manifests ==
    {Json(current, SeedEntries(ListTags(NameOrder, S))) :
        <<current, S>> \in
            {cs \in (NameUniverse \cup {Absent}) \X SUBSET NameUniverse :
                /\ Cardinality(cs[2]) <= 2
                /\ cs[1] # Absent => (cs[1] \in cs[2] /\ is_stable(Version(cs[1])))}}

UpdatedLists ==
    UNION {[1..n -> {Pair(Version(name), build_path(Version(name))) : name \in NameUniverse}] :
              n \in 0..MaxUpdated}

CallRecord(op, version, updated_versions, raised, wrote) ==
    [op |-> op, version |-> version, updated_versions |-> updated_versions,
     raised |-> raised, wrote |-> wrote, file0 |-> docset_json, root0 |-> root_archive]

Called(record) ==
    [n |-> call.n + 1,
     last |-> <<record>>,
     before |-> IF call.last = <<>> THEN <<>>
                ELSE <<[op |-> call.last[1].op, version |-> call.last[1].version,
                        raised |-> call.last[1].raised]>>]

pipeline == <<tags, head, main, stable_version, ledger_file, processed_versions, versions,
              updated, pc, i, runs, hist>>

DashInit ==
    /\ tags = {}
    /\ head = Absent
    /\ stable_version = TRUE
    /\ ledger_file = LedgerFile(<<>>, "whole")
    /\ processed_versions = <<>>
    /\ versions = <<>>
    /\ updated = <<>>
    /\ pc = "dash"
    /\ i = 0
    /\ runs = 0
    /\ hist = NoHist
    /\ call = NoCall
    /\ main = NoMain
    /\ \E j \in Manifests, pad \in Paddings :
        /\ docset_json = DocsetFile(j, JsonLen(j) + pad, 0)
        /\ version_dirs = {j.specific_versions[k].version : k \in 1..Len(j.specific_versions)}
        /\ root_archive = IF j.version = Absent THEN NoPath ELSE <<"build", j.version>>
    /\ repository_path = "complete"
    /\ repo = "None"

\* Dash.add_version(doc_name, version, doc_path), updater.py lines 32-64:
\* the copy, then the update of docset.json, which json.load may refuse
DashAddVersion(name) ==
    /\ pc = "dash"
    /\ call.n < MaxCalls
    /\ version_dirs' = version_dirs \cup {name}
    /\ docset_json' = IF JsonLoadRaises(docset_json) THEN docset_json
                      ELSE add_version_json(docset_json, Version(name))
    /\ call' = Called(CallRecord("add_version", name, <<>>,
                                 JsonLoadRaises(docset_json), ~JsonLoadRaises(docset_json)))
    /\ UNCHANGED root_archive
    /\ UNCHANGED pipeline
    /\ UNCHANGED <<repository_path, repo>>

\* Dash.update_newest_version(doc_name, updated_versions), lines 99-143
DashUpdateNewest ==
    /\ pc = "dash"
    /\ call.n < MaxCalls
    /\ \E latest \in {latest_stable_version(docset_json.json)} :
       \E updated_versions \in UpdatedLists :
       \E path \in {IF JsonLoadRaises(docset_json) THEN NoPath
                     ELSE latest_stable_version_path(updated_versions, latest)} :
          /\ root_archive' = IF path = NoPath THEN root_archive ELSE path
          /\ docset_json' = IF path = NoPath THEN docset_json
                            ELSE update_newest_json(docset_json, latest)
          /\ call' = Called(CallRecord("update_newest_version", Absent, updated_versions,
                                       JsonLoadRaises(docset_json), path # NoPath))
    /\ UNCHANGED version_dirs
    /\ UNCHANGED pipeline
    /\ UNCHANGED <<repository_path, repo>>

DashNext ==
    \/ \E name \in NameUniverse : DashAddVersion(name)
    \/ DashUpdateNewest

DashSpec == DashInit /\ [][DashNext]_vars

----------------------------------------------------------------------------
(* Claims about discovery, the build loop and the ledger, under Spec *)

IsStableName(name) == name.suffix = ""

FileNames(file) == {file.versions[k] : k \in 1..Len(file.versions)}

\* A normalized tag name that discovery has to list, given the ledger.
Eligible(name, stable, ledger) ==
    /\ Parsable(name)
    /\ ~KeyLess(parse_version(name), parse_version(N_1_0_0))
    /\ stable => IsStableName(name)
    /\ \A k \in 1..Len(ledger) : parse_version(ledger[k].name) # parse_version(name)

ExampleTags == {T_v0_9_0, T_v1_0_0, T_v1_1_0, T_v1_2_0_rc1}

\* C1: after discovery the candidates are exactly the normalized tag names
\* that parse as versions, are not below minimum_version, are stable when
\* stability is required, and equal no ledger entry by ordering key; with
\* minimum 1.0.0, ledger {1.0.0}, tags {v0.9.0, v1.0.0, v1.1.0, v1.2.0-rc1}
\* and stability required the candidates are [1.1.0].
C1_Candidates ==
    pc = "build" =>
        /\ Names(versions) =
              {normalize_tag(t) : t \in {u \in hist.cur_tags :
                  Eligible(normalize_tag(u), stable_version, hist.cur_mem)}}
        /\ (hist.cur_tags = ExampleTags /\ Names(hist.cur_mem) = {N_1_0_0} /\ stable_version)
              => versions = <<Version(N_1_1_0)>>

C1_Witness ==
    /\ pc = "build"
    /\ hist.cur_tags = ExampleTags
    /\ Names(hist.cur_mem) = {N_1_0_0}
    /\ stable_version
    /\ versions = <<Version(N_1_1_0)>>

SecondCall ==
    /\ pc = "build"
    /\ hist.prev # <<>>
    /\ hist.prev[1].tags = hist.cur_tags

LedgerUntouched ==
    /\ updated = <<>>
    /\ ledger_file = hist.cur_file
    /\ processed_versions = hist.cur_mem

\* C2: a second update() with no new upstream version between the two calls
\* builds nothing and leaves the ledger, in memory and on disk, as it was.
C2_Idempotent == SecondCall => LedgerUntouched

Resumed ==
    /\ pc = "build"
    /\ hist.resume # <<>>
    /\ hist.resume[1].tags = hist.cur_tags

Rest(r) == SubSeq(r.candidates, r.k + 1, Len(r.candidates))

\* C3: after a crash right after recording ck, the next run against the same
\* tags has the candidates c(k+1)..cn.
C3_Resume == Resumed => versions = Rest(hist.resume[1])

\* C4: a build that exits with a nonzero code returns no path and changes
\* neither the ledger in memory nor the ledger file, and a name is new in the
\* ledger file only by a build that exited with 0.
C4_FailureLeavesLedger ==
    [][/\ (pc = "build" /\ i' = i + 1 /\ hist'.returncode # 0)
            => /\ hist'.path = NoPath
               /\ updated' = updated
               /\ processed_versions' = processed_versions
               /\ ledger_file' = ledger_file
       /\ (FileNames(ledger_file') \ FileNames(ledger_file) # {})
            => (pc = "build" /\ hist'.returncode = 0)]_vars

C4_Witness ==
    /\ pc = "build"
    /\ i = 3
    /\ hist.returncode = 1
    /\ hist.path = NoPath
    /\ Len(updated) = 1
    /\ Len(ledger_file.versions) = Len(hist.cur_file.versions) + 1

\* C5: every version update() has a path for is in the ledger file, which is
\* complete: when build_version returns the path, and when update() returns.
C5_ReportedIsRecorded ==
    (pc \in {"build", "add_versions", "newest_dump"} /\ updated # <<>>) =>
        /\ ledger_file.state = "whole"
        /\ \A k \in 1..Len(updated) : updated[k].version.name \in FileNames(ledger_file)

C5_Witness ==
    /\ pc = "add_versions"
    /\ Len(updated) = 2
    /\ hist.prev[1].failed
    /\ \A k \in 1..Len(updated) : updated[k].version.name \in FileNames(ledger_file)

\* C6: over loads, records and runs whose writes of the ledger file run to
\* their end, no version leaves the ledger file, and no version leaves the
\* ledger in memory while the process lives.
C6_LedgerMonotone ==
    [][/\ (ledger_file.state = "whole" /\ ledger_file'.state = "whole")
            => FileNames(ledger_file) \subseteq FileNames(ledger_file')
       /\ (pc # "stopped" /\ pc' # "stopped")
            => Names(processed_versions) \subseteq Names(processed_versions')
       /\ (pc = "stopped" /\ pc' = "idle" /\ ledger_file.state = "whole")
            => Names(processed_versions') = FileNames(ledger_file)]_vars

C6_Witness ==
    /\ pc = "build"
    /\ ledger_file.state = "whole"
    /\ hist.cur_failed
    /\ Len(ledger_file.versions) >= Len(hist.cur_file.versions) + 2
    /\ runs = 2

\* C7: the ledger file is never truncated or partial where a load can see
\* it, and a load reads back every version whose record has returned.
C7_CrashSafeWrite ==
    /\ ledger_file.state = "whole"
    /\ pc = "idle" => hist.durable \subseteq Names(processed_versions)

----------------------------------------------------------------------------
(* Claims about Dash, under DashSpec *)

EntryNames(j) == {j.specific_versions[k].version : k \in 1..Len(j.specific_versions)}

Last == call.last[1]

\* C8: after add_version is called twice with the same version and archive,
\* the first call having returned, the manifest has exactly one entry with
\* that version, and docset.json is what the first call left.
C8_AddVersionIdempotent ==
    (/\ call.before # <<>>
     /\ call.before[1].op = "add_version"
     /\ ~call.before[1].raised
     /\ Last.op = "add_version"
     /\ Last.version = call.before[1].version) =>
        /\ Cardinality({k \in 1..Len(docset_json.json.specific_versions) :
                           docset_json.json.specific_versions[k].version = Last.version}) = 1
        /\ docset_json = Last.file0

C8_Witness ==
    /\ call.before # <<>>
    /\ call.before[1].op = "add_version"
    /\ ~call.before[1].raised
    /\ Last.op = "add_version"
    /\ ~Last.raised
    /\ Last.version = call.before[1].version
    /\ Len(docset_json.json.specific_versions) = 3
    /\ docset_json = Last.file0

\* C9: when update_newest_version sets the current version, that version has
\* an entry in specific_versions and is stable.
C9_CurrentIsStableEntry ==
    (/\ call.last # <<>>
     /\ Last.op = "update_newest_version"
     /\ (Last.wrote \/ docset_json.json.version # Last.file0.json.version)) =>
        /\ docset_json.json.version \in EntryNames(docset_json.json)
        /\ IsStableName(docset_json.json.version)

C9_Witness ==
    /\ call.last # <<>>
    /\ Last.op = "update_newest_version"
    /\ docset_json.json.version # Last.file0.json.version
    /\ Last.file0.json.version # Absent
    /\ \E name \in EntryNames(docset_json.json) : ~IsStableName(name)
    /\ \E k \in 1..Len(Last.updated_versions) : ~IsStableName(Last.updated_versions[k].version.name)

\* The maximum stable version among the entries of a manifest
MaxStable(j, name) ==
    /\ name \in EntryNames(j)
    /\ IsStableName(name)
    /\ \A other \in EntryNames(j) :
          IsStableName(other) => ~KeyLess(parse_version(name), parse_version(other))

\* The updated versions equal to a name by ordering key
Matches(updated_versions, name) ==
    {k \in 1..Len(updated_versions) :
        parse_version(updated_versions[k].version.name) = parse_version(name)}

\* C10: when the maximum stable version among the entries is among the
\* updated versions, update_newest_version copies the archive built for it
\* to the doc-set root and sets the current version to it; with the entries
\* 1.0.0 and 1.1.0, no current version and 1.1.0 updated, the current
\* version becomes 1.1.0 and its archive is at the root.
C10_UpdatesCurrent ==
    (/\ call.last # <<>>
     /\ Last.op = "update_newest_version"
     /\ ~Last.raised) =>
        /\ \A name \in EntryNames(Last.file0.json) :
              (MaxStable(Last.file0.json, name) /\ Matches(Last.updated_versions, name) # {}) =>
                  /\ parse_version(docset_json.json.version) = parse_version(name)
                  /\ MaxStable(docset_json.json, docset_json.json.version)
                  /\ \E k \in Matches(Last.updated_versions, name) :
                        root_archive = <<"build", Last.updated_versions[k].version.name>>
        /\ (/\ Last.file0.json = Json(Absent, SeedEntries(<<N_1_0_0, N_1_1_0>>))
            /\ Last.updated_versions = <<Pair(Version(N_1_1_0), <<"build", N_1_1_0>>)>>) =>
                  /\ docset_json.json.version = N_1_1_0
                  /\ root_archive = <<"build", N_1_1_0>>

C10_Witness ==
    /\ call.last # <<>>
    /\ Last.op = "update_newest_version"
    /\ ~Last.raised
    /\ Last.file0.json = Json(Absent, SeedEntries(<<N_1_0_0, N_1_1_0>>))
    /\ Last.root0 = NoPath
    /\ Last.updated_versions = <<Pair(Version(N_1_1_0), <<"build", N_1_1_0>>)>>
    /\ docset_json.json.version = N_1_1_0
    /\ root_archive = <<"build", N_1_1_0>>

\* The maximum stable version of the entries is among the updated versions
LatestUpdated(j, updated_versions) ==
    \E name \in EntryNames(j) : MaxStable(j, name) /\ Matches(updated_versions, name) # {}

\* C11: when the maximum stable version among the entries is not among the
\* updated versions, and when no entry is stable, update_newest_version
\* leaves docset.json (current version and entries) and the archive at the
\* doc-set root as they were.
C11_NoUpdateWithoutLatest ==
    (/\ call.last # <<>>
     /\ Last.op = "update_newest_version"
     /\ ~LatestUpdated(Last.file0.json, Last.updated_versions)) =>
        /\ docset_json = Last.file0
        /\ root_archive = Last.root0

C11_Witness ==
    /\ call.last # <<>>
    /\ Last.op = "update_newest_version"
    /\ ~Last.raised
    /\ \E name \in EntryNames(Last.file0.json) : MaxStable(Last.file0.json, name)
    /\ \E k \in 1..Len(Last.updated_versions) :
          /\ Last.updated_versions[k].version.name \in EntryNames(Last.file0.json)
          /\ IsStableName(Last.updated_versions[k].version.name)
    /\ ~LatestUpdated(Last.file0.json, Last.updated_versions)
    /\ docset_json = Last.file0
    /\ root_archive = Last.root0

----------------------------------------------------------------------------
(* More claims about the build loop, under Spec *)

\* The pairs of the runs of the command that exited with 0, in their order
RECURSIVE Succeeded(_)
Succeeded(codes) ==
    IF codes = <<>> THEN <<>>
    ELSE (IF codes[1].returncode = 0
          THEN <<Pair(Version(codes[1].version), <<"build", codes[1].version>>)>>
          ELSE <<>>) \o Succeeded(Tail(codes))

\* C12: the command is run once for each candidate, in the order of the
\* list, whatever fails: the runs so far are a prefix of the candidates, all
\* of them when the loop ends, and what update() returns is the pairs of
\* the candidates whose command exited with 0, in that order.
C12_FailureDoesNotAbort ==
    pc = "build" =>
        /\ Len(hist.cur_codes) <= Len(versions)
        /\ \A k \in 1..Len(hist.cur_codes) : hist.cur_codes[k].version = versions[k].name
        /\ i > Len(versions) => Len(hist.cur_codes) = Len(versions)
        /\ updated = Succeeded(hist.cur_codes)

C12_Witness ==
    /\ pc = "build"
    /\ i > Len(versions)
    /\ Len(versions) = 3
    /\ hist.cur_codes[1].returncode = 1
    /\ hist.cur_codes[2].returncode = 0
    /\ hist.cur_codes[3].returncode = 1
    /\ updated = <<Pair(versions[2], <<"build", versions[2].name>>)>>

\* C13: a call of update() with a tag whose normalized name is no version
\* goes on to the build loop, and its candidates are the versions of the
\* other tags that are eligible.
C13_InvalidTagSkipped ==
    [][(runs' = runs + 1 /\ \E t \in tags : ~Parsable(normalize_tag(t))) =>
          /\ pc' = "build"
          /\ Names(versions') =
                {normalize_tag(t) : t \in {u \in tags :
                    Eligible(normalize_tag(u), stable_version, processed_versions)}}]_vars

\* No two entries of the manifest are equal by ordering key
UniqueByKey(j) ==
    \A k, l \in 1..Len(j.specific_versions) :
        parse_version(j.specific_versions[k].version) = parse_version(j.specific_versions[l].version)
            => k = l

\* C16: add_version keeps the entries of specific_versions unique by
\* ordering key: called on a manifest with no two entries equal by key, it
\* leaves a manifest with no two entries equal by key, also when the raw
\* strings differ.
C16_EntriesUniqueByKey ==
    (/\ call.last # <<>>
     /\ Last.op = "add_version"
     /\ UniqueByKey(Last.file0.json)) => UniqueByKey(docset_json.json)

----------------------------------------------------------------------------
(* More claims about the doc set, under Spec *)

\* C17: whenever the process is between two calls or gone, by a crash
\* between the steps of update_newest_version as well, a current version
\* set in docset.json has its archive at the doc-set root.
C17_RootIsCurrent ==
    (pc \in {"idle", "stopped"} /\ docset_json.json.version # Absent)
        => root_archive = <<"build", docset_json.json.version>>

\* No two of the names are equal by ordering key
NamesUniqueByKey(names) ==
    \A k, l \in 1..Len(names) : parse_version(names[k]) = parse_version(names[l]) => k = l

\* C18: neither the ledger in memory nor the ledger file holds two entries
\* that are equal by ordering key.
C18_LedgerUniqueByKey ==
    /\ NamesUniqueByKey([k \in 1..Len(processed_versions) |-> processed_versions[k].name])
    /\ NamesUniqueByKey(ledger_file.versions)

----------------------------------------------------------------------------
(* Claims about the ledger file of Kubernetes, under KubernetesSpec *)

\* The names are in ascending order of their ordering keys
Ascending(names) ==
    \A k, l \in 1..Len(names) :
        k < l => ~KeyLess(parse_version(names[l]), parse_version(names[k]))

----------------------------------------------------------------------------
(* Claims about the version read from the content, under TerraformSpec *)

\* C15: a run of the Terraform pipeline has at most one candidate, and when
\* the version of the content is in the ledger at discovery, the run has no
\* candidate, builds nothing and returns the empty list, on a new instance
\* and on one that has built and recorded that version before.
C15_ContentVersionOnce ==
    pc = "build" =>
        /\ Len(versions) <= 1
        /\ (\E k \in 1..Len(hist.cur_mem) :
                parse_version(hist.cur_mem[k].name) = parse_version(head))
              => (versions = <<>> /\ updated = <<>>)

----------------------------------------------------------------------------
(* Claims about __main__, under MainSpec *)

\* The place, in the configured projects, of the one an exception came from
FailedDoc ==
    IF pc # "stopped" \/ main.ended THEN 0
    ELSE IF main.n < Len(main.docs) THEN main.n + 1
    ELSE main.k

\* Discovery, builds and merge of the project at a place have run to their end
Processed(j) ==
    /\ main.n = Len(main.docs)
    /\ j < main.k \/ (j = main.k /\ (pc = "idle" \/ main.ended))

\* C14: when the tool has ended, every configured project but the one that
\* failed fatally has been processed: its discovery, its builds and its
\* merge have run.
C14_FailuresIsolated ==
    pc = "stopped" => \A j \in 1..Len(main.docs) : j # FailedDoc => Processed(j)

\* The runs of the command so far are in ascending order of the ordering
\* keys, and no candidate older than one of them is still to be run
BuildsInOrder(codes, candidates) ==
    /\ Ascending([k \in 1..Len(codes) |-> codes[k].version])
    /\ \A k \in 1..Len(codes), n \in 1..Len(candidates) :
          KeyLess(parse_version(candidates[n].name), parse_version(codes[k].version))
              => \E l \in 1..(k - 1) : codes[l].version = candidates[n].name

\* add_versions of the project in process has run to its end
MergeDone ==
    /\ pc = "idle"
    /\ \A n \in 1..Len(updated) :
          /\ updated[n].version.name \in EntryNames(docset_json.json)
          /\ updated[n].version.name \in version_dirs
    /\ LatestUpdated(docset_json.json, updated)
          => MaxStable(docset_json.json, docset_json.json.version)

\* C20: in the run of a project the command is run for one candidate after
\* the other in ascending order of the ordering keys, none before an older
\* candidate of the run; and the discovery of a project starts when the
\* merge of the project before it has run to its end.
C20_OneAtATimeInOrder ==
    [][/\ pc' = "build" => BuildsInOrder(hist'.cur_codes, versions')
       /\ main'.k = main.k + 1 => MergeDone]_vars

C20_Witness ==
    /\ main.docs = <<"Packer", "Terraform">>
    /\ main.k = 2
    /\ pc = "build"
    /\ Len(hist.cur_codes) = 1
    /\ Cardinality(hist.durable) = 3

\* The candidates of the run that the ledger holds, in memory and in the file
Recorded(k) ==
    /\ versions[k].name \in Names(processed_versions)
    /\ versions[k].name \in FileNames(ledger_file)

\* C21: at every point of a run the candidates of the run that the ledger
\* holds are a prefix of the ascending candidate list: no candidate is in
\* the ledger while an older candidate of the same run is not.
C21_LedgerContiguous ==
    pc = "build" =>
        \A k \in 1..Len(versions) :
            Recorded(k) => \A l \in 1..(k - 1) : Recorded(l)

\* C22: after add_version or update_newest_version has rewritten
\* docset.json the file is the text of the updated document and nothing
\* else, whatever it held before, a longer text included; json.load reads
\* it back.
C22_RewriteLeavesNothingBehind ==
    (call.last # <<>> /\ Last.wrote) =>
        /\ docset_json.size = JsonLen(docset_json.json)
        /\ docset_json.stale = 0
        /\ ~JsonLoadRaises(docset_json)

\* add_versions has run to its end in some process
MergeReturns == UpdateNewestReturn \/ UpdateNewestDump

BuiltNames == {normalize_tag(t) : t \in {T_v1_0_0, T_1_1}}

\* C23: a version that a successful build has recorded in the ledger gets
\* an entry in docset.json, a crash between the write of the ledger and
\* add_versions notwithstanding, when the tool is run to its end again
\* afterwards.
C23_RecordedIsMerged ==
    ([]<><<MergeReturns>>_vars) =>
        \A name \in BuiltNames :
            [](name \in hist.durable /\ name \in FileNames(ledger_file)
                  => <>(name \in EntryNames(docset_json.json)))

\* C24: a call of initialize_repo that returns leaves in repo a complete
\* clone of the remote; a directory that a failed or interrupted clone has
\* left is never opened as a clone; a complete clone is opened and not
\* cloned again.
C24_InitializeRepoSafe ==
    [][(repo = "None" /\ repo' # "None") =>
          /\ repo' = "complete"
          /\ repository_path' = "complete"
          /\ repository_path \notin {"empty", "partial"}
          /\ repository_path = "complete" => UNCHANGED <<repository_path, tags>>]_vars

====
